---- MODULE Spec2Model ----
(***************************************************************************)
(* A model of go-ds-measure: the datastore wrapper `measure` that records  *)
(* metrics (counters and histograms in a process-wide registry) around    *)
(* every operation of a backend datastore, and its `measuredBatch`.       *)
(***************************************************************************)
EXTENDS Naturals, Sequences, FiniteSets

\* ------------------------------------------------------------------ bounds
\* calls of Put/Get/Has/Delete/Query in a run of the store alone
MaxCalls == 2
\* calls of Batch() and of Put, Delete and Commit on a batch in a run of batches
MaxBatchCalls == 4
\* calls of Put/Get/Has/Delete/Query in a run that mixes both code paths
MixCalls == 1
\* the longest duration a measurement observes, in microseconds
MaxElapsed == 5
\* calls made by the concurrent callers, in all
ConcCalls == 2
\* stores constructed and Close calls made in a run of the metric-name lifecycle
MaxStores == 3
MaxCloses == 3

\* ------------------------------------------------------------------ data
Keys == {"a", "b"}

NoErr == "nil"
ErrNotFound == "ErrNotFound"
ErrIO == "ErrIO"
ErrBatchUnsupported == "ErrBatchUnsupported"
\* panic(fmt.Sprintf("duplicate metric \"%s\"", name))
PanicDuplicate == "panic: duplicate metric"
Faults == {NoErr, ErrIO}

\* A value is an interface{}: a []byte payload, some other object, or nil.
Bytes(d) == [kind |-> "bytes", data |-> d]
Struct == [kind |-> "struct", data |-> <<>>]
Nil == [kind |-> "nil", data |-> <<>>]
Values == {Bytes(<<7>>), Bytes(<<7, 8>>), Struct}

\* time.Now().Sub(start) / time.Microsecond, as observed by one measurement
Elapsed == {0, MaxElapsed}

\* A query.Query: the key prefix it selects ("" selects every key).
Queries == {"", "a"}

\* ------------------------------------------------------------ metric names
Operations == {"put", "get", "has", "delete", "query"}

putCount == "put.count"
putErr == "put.err"
putLatency == "put.latency"
putSize == "put.size"
getCount == "get.count"
getErr == "get.err"
getLatency == "get.latency"
getSize == "get.size"
hasCount == "has.count"
hasErr == "has.err"
hasLatency == "has.latency"
deleteCount == "delete.count"
deleteErr == "delete.err"
deleteLatency == "delete.latency"
queryCount == "query.count"
queryErr == "query.err"
queryLatency == "query.latency"

CounterNames ==
    {putCount, putErr, getCount, getErr, hasCount, hasErr,
     deleteCount, deleteErr, queryCount, queryErr}
HistogramNames ==
    {putLatency, putSize, getLatency, getSize, hasLatency,
     deleteLatency, queryLatency}

CountOf(op) ==
    CASE op = "put" -> putCount [] op = "get" -> getCount [] op = "has" -> hasCount
      [] op = "delete" -> deleteCount [] op = "query" -> queryCount
ErrOf(op) ==
    CASE op = "put" -> putErr [] op = "get" -> getErr [] op = "has" -> hasErr
      [] op = "delete" -> deleteErr [] op = "query" -> queryErr
LatencyOf(op) ==
    CASE op = "put" -> putLatency [] op = "get" -> getLatency [] op = "has" -> hasLatency
      [] op = "delete" -> deleteLatency [] op = "query" -> queryLatency

\* ----------------------------------------------------- registry primitives
\* metrics.Counter.Inc(n)
Inc(counters, name, n) == [counters EXCEPT ![name] = @ + n]

\* metrics.Histogram.Update(v): the histogram has received one more sample
Update(histograms, name, v) == [histograms EXCEPT ![name] = Append(@, v)]

\* value.([]byte)
IsBytes(value) == value.kind = "bytes"

\* ------------------------------------------------------------- the backend
\* One backend invocation, as recorded by the wrapper's delegation.
Invocation(op, key, value, q, ret) ==
    [op |-> op, key |-> key, value |-> value, q |-> q, ret |-> ret]

\* What an operation returns: (error), (value, error), (exists, error) or
\* (results, error); the components an operation does not return are zero.
Ret(err, value, exists, res) ==
    [err |-> err, value |-> value, exists |-> exists, res |-> res]

BackendPut(store, key, value, fault) ==
    IF fault # NoErr
    THEN [store |-> store, err |-> fault]
    ELSE [store |-> [store EXCEPT ![key] = value], err |-> NoErr]

BackendGet(store, key, fault) ==
    IF fault # NoErr THEN [value |-> Nil, err |-> fault]
    ELSE IF store[key] = Nil THEN [value |-> Nil, err |-> ErrNotFound]
    ELSE [value |-> store[key], err |-> NoErr]

BackendHas(store, key, fault) ==
    IF fault # NoErr THEN [exists |-> FALSE, err |-> fault]
    ELSE [exists |-> store[key] # Nil, err |-> NoErr]

BackendDelete(store, key, fault) ==
    IF fault # NoErr THEN [store |-> store, err |-> fault]
    ELSE IF store[key] = Nil THEN [store |-> store, err |-> ErrNotFound]
    ELSE [store |-> [store EXCEPT ![key] = Nil], err |-> NoErr]

Matches(q, key) == q = "" \/ q = key

BackendQuery(store, q, fault) ==
    IF fault # NoErr THEN [res |-> {}, err |-> fault]
    ELSE [res |-> {<<k, store[k]>> : k \in {x \in Keys : Matches(q, x) /\ store[x] # Nil}},
          err |-> NoErr]

\* A backend batch session: the operations buffered on it, in call order.
BatchOp(op, key, value) == [op |-> op, key |-> key, value |-> value]

RECURSIVE ApplyOps(_, _)
ApplyOps(store, ops) ==
    IF ops = <<>> THEN store
    ELSE LET o == Head(ops)
         IN ApplyOps([store EXCEPT ![o.key] = IF o.op = "put" THEN o.value ELSE Nil],
                     Tail(ops))

\* datastore.Batch.Commit: the session is committed as one operation.
BackendCommit(store, ops, fault) ==
    IF fault # NoErr THEN [store |-> store, err |-> fault]
    ELSE [store |-> ApplyOps(store, ops), err |-> NoErr]


\* ------------------------------------------------------- the wrapper state
\* `m` below is the measure struct together with what it points at:
\*   m.backend    the contents of the backend datastore
\*   m.counters   the registered counters' values, by name suffix
\*   m.histograms the samples each registered histogram has received
\*   m.invoked    the backend invocations made by the handler being run
Measure(backend, counters, histograms) ==
    [backend |-> backend, counters |-> counters, histograms |-> histograms,
     invoked |-> <<>>]

\* recordLatency(h, start): elapsed is time.Now().Sub(start) in microseconds
recordLatency(m, h, elapsed) ==
    [m EXCEPT !.histograms = Update(@, h, elapsed)]

\* func (m *measure) Put(key, value) error
Put(m, key, value, fault, elapsed) ==
    LET m1 == [m EXCEPT !.counters = Inc(@, putCount, 1)]
        m2 == IF IsBytes(value)
              THEN [m1 EXCEPT !.histograms = Update(@, putSize, Len(value.data))]
              ELSE m1
        r == BackendPut(m2.backend, key, value, fault)
        m3 == [m2 EXCEPT !.backend = r.store,
                         !.invoked = Append(@, Invocation("Put", key, value, "",
                                                       Ret(r.err, Nil, FALSE, {})))]
        m4 == IF r.err # NoErr THEN [m3 EXCEPT !.counters = Inc(@, putErr, 1)] ELSE m3
    IN [m |-> recordLatency(m4, putLatency, elapsed), ret |-> Ret(r.err, Nil, FALSE, {})]

\* Get that reports a missing key as a nil value without an error.
GetNotFoundAsNil(m, key, fault, elapsed) ==
    LET m1 == [m EXCEPT !.counters = Inc(@, getCount, 1)]
        r == BackendGet(m1.backend, key, fault)
        m2 == [m1 EXCEPT !.invoked = Append(@, Invocation("Get", key, Nil, "",
                                                       Ret(r.err, r.value, FALSE, {})))]
        err == IF r.err = ErrNotFound THEN NoErr ELSE r.err
        m3 == IF err # NoErr THEN [m2 EXCEPT !.counters = Inc(@, getErr, 1)] ELSE m2
    IN [m |-> recordLatency(m3, getLatency, elapsed), ret |-> Ret(err, r.value, FALSE, {})]

\* Get that samples the size of whatever came back, error or not.
GetSizeAlways(m, key, fault, elapsed) ==
    LET m1 == [m EXCEPT !.counters = Inc(@, getCount, 1)]
        r == BackendGet(m1.backend, key, fault)
        m2 == [m1 EXCEPT !.invoked = Append(@, Invocation("Get", key, Nil, "",
                                                       Ret(r.err, r.value, FALSE, {})))]
        m3 == IF r.err # NoErr THEN [m2 EXCEPT !.counters = Inc(@, getErr, 1)] ELSE m2
        m4 == [m3 EXCEPT !.histograms = Update(@, getSize, Len(r.value.data))]
    IN [m |-> recordLatency(m4, getLatency, elapsed), ret |-> Ret(r.err, r.value, FALSE, {})]

\* func (m *measure) Get(key) (value, err)
Get(m, key, fault, elapsed) ==
    LET m1 == [m EXCEPT !.counters = Inc(@, getCount, 1)]
        r == BackendGet(m1.backend, key, fault)
        m2 == [m1 EXCEPT !.invoked = Append(@, Invocation("Get", key, Nil, "",
                                                       Ret(r.err, r.value, FALSE, {})))]
        m3 == IF r.err # NoErr
              THEN [m2 EXCEPT !.counters = Inc(@, getErr, 1)]
              ELSE IF IsBytes(r.value)
                   THEN [m2 EXCEPT !.histograms = Update(@, getSize, Len(r.value.data))]
                   ELSE m2
    IN [m |-> recordLatency(m3, getLatency, elapsed), ret |-> Ret(r.err, r.value, FALSE, {})]

\* Has that counts on the get counter (a copied line left unchanged).
HasCountsGet(m, key, fault, elapsed) ==
    LET m1 == [m EXCEPT !.counters = Inc(@, getCount, 1)]
        r == BackendHas(m1.backend, key, fault)
        m2 == [m1 EXCEPT !.invoked = Append(@, Invocation("Has", key, Nil, "",
                                                       Ret(r.err, Nil, r.exists, {})))]
        m3 == IF r.err # NoErr THEN [m2 EXCEPT !.counters = Inc(@, hasErr, 1)] ELSE m2
    IN [m |-> recordLatency(m3, hasLatency, elapsed), ret |-> Ret(r.err, Nil, r.exists, {})]

\* func (m *measure) Has(key) (exists, err)
Has(m, key, fault, elapsed) ==
    LET m1 == [m EXCEPT !.counters = Inc(@, hasCount, 1)]
        r == BackendHas(m1.backend, key, fault)
        m2 == [m1 EXCEPT !.invoked = Append(@, Invocation("Has", key, Nil, "",
                                                       Ret(r.err, Nil, r.exists, {})))]
        m3 == IF r.err # NoErr THEN [m2 EXCEPT !.counters = Inc(@, hasErr, 1)] ELSE m2
    IN [m |-> recordLatency(m3, hasLatency, elapsed), ret |-> Ret(r.err, Nil, r.exists, {})]

\* Delete that records latency at the end of the body instead of deferring it,
\* so the error return leaves without a sample.
DeleteLatencyOnSuccess(m, key, fault, elapsed) ==
    LET m1 == [m EXCEPT !.counters = Inc(@, deleteCount, 1)]
        r == BackendDelete(m1.backend, key, fault)
        m2 == [m1 EXCEPT !.backend = r.store,
                         !.invoked = Append(@, Invocation("Delete", key, Nil, "",
                                                       Ret(r.err, Nil, FALSE, {})))]
    IN IF r.err # NoErr
       THEN [m |-> [m2 EXCEPT !.counters = Inc(@, deleteErr, 1)],
             ret |-> Ret(r.err, Nil, FALSE, {})]
       ELSE [m |-> recordLatency(m2, deleteLatency, elapsed),
             ret |-> Ret(r.err, Nil, FALSE, {})]

\* func (m *measure) Delete(key) error
Delete(m, key, fault, elapsed) ==
    LET m1 == [m EXCEPT !.counters = Inc(@, deleteCount, 1)]
        r == BackendDelete(m1.backend, key, fault)
        m2 == [m1 EXCEPT !.backend = r.store,
                         !.invoked = Append(@, Invocation("Delete", key, Nil, "",
                                                       Ret(r.err, Nil, FALSE, {})))]
        m3 == IF r.err # NoErr THEN [m2 EXCEPT !.counters = Inc(@, deleteErr, 1)] ELSE m2
    IN [m |-> recordLatency(m3, deleteLatency, elapsed), ret |-> Ret(r.err, Nil, FALSE, {})]

\* func (m *measure) Query(q) (query.Results, error)
Query(m, q, fault, elapsed) ==
    LET m1 == [m EXCEPT !.counters = Inc(@, queryCount, 1)]
        r == BackendQuery(m1.backend, q, fault)
        m2 == [m1 EXCEPT !.invoked = Append(@, Invocation("Query", "", Nil, q,
                                                       Ret(r.err, Nil, FALSE, r.res)))]
        m3 == IF r.err # NoErr THEN [m2 EXCEPT !.counters = Inc(@, queryErr, 1)] ELSE m2
    IN [m |-> recordLatency(m3, queryLatency, elapsed), ret |-> Ret(r.err, Nil, FALSE, r.res)]

\* ------------------------------------------------------------ measuredBatch
\* type measuredBatch struct: puts, deletes, putts, delts (m is the one store).
\* log is what one backend batch session would hold had the calls made on this
\* batch been made on it instead, in call order.
NewBatch ==
    [puts |-> 0, deletes |-> 0, putts |-> <<>>, delts |-> <<>>, log |-> <<>>,
     commits |-> 0]

\* func (m *measure) Batch() (datastore.Batch, error): batching says whether the
\* backend is a datastore.Batching; fault1 and fault2 are the results of the two
\* bds.Batch() calls.
Batch(batching, fault1, fault2) ==
    IF ~batching THEN [ok |-> FALSE, err |-> ErrBatchUnsupported]
    ELSE IF fault1 # NoErr THEN [ok |-> FALSE, err |-> fault1]
    ELSE IF fault2 # NoErr THEN [ok |-> FALSE, err |-> fault2]
    ELSE [ok |-> TRUE, err |-> NoErr]

\* func (mt *measuredBatch) Put(key, val) error
BatchPut(m, mt, key, val, fault) ==
    LET mt1 == [mt EXCEPT !.puts = @ + 1]
        m1 == IF IsBytes(val)
              THEN [m EXCEPT !.histograms = Update(@, putSize, Len(val.data))]
              ELSE m
        mt2 == IF fault = NoErr
               THEN [mt1 EXCEPT !.putts = Append(@, BatchOp("put", key, val)),
                                !.log = Append(@, BatchOp("put", key, val))]
               ELSE mt1
    IN [m |-> m1, mt |-> mt2, err |-> fault]

\* func (mt *measuredBatch) Delete(key) error
BatchDelete(m, mt, key, fault) ==
    LET mt1 == [mt EXCEPT !.deletes = @ + 1]
        mt2 == IF fault = NoErr
               THEN [mt1 EXCEPT !.delts = Append(@, BatchOp("delete", key, Nil)),
                                !.log = Append(@, BatchOp("delete", key, Nil))]
               ELSE mt1
    IN [m |-> m, mt |-> mt2, err |-> fault]

\* for i := 0; i < n; i++ { lat.Update(int64(took)) }
RECURSIVE UpdateN(_, _, _, _)
UpdateN(histograms, name, v, n) ==
    IF n = 0 THEN histograms ELSE UpdateN(Update(histograms, name, v), name, v, n - 1)

\* logBatchCommit that records the commit as one sample of its whole duration.
logBatchCommitOneSample(m, which, b, n, num, errs, lat, fault, elapsed) ==
    IF n > 0
    THEN LET r == BackendCommit(m.backend, b, fault)
             m1 == [m EXCEPT !.backend = r.store,
                             !.invoked = Append(@, Invocation("Commit", which, Nil, "",
                                                           Ret(r.err, Nil, FALSE, {})))]
             m2 == [m1 EXCEPT !.counters = Inc(@, num, n)]
             m3 == [m2 EXCEPT !.histograms = Update(@, lat, elapsed)]
         IN IF r.err # NoErr
            THEN [m |-> [m3 EXCEPT !.counters = Inc(@, errs, 1)], err |-> r.err]
            ELSE [m |-> m3, err |-> NoErr]
    ELSE [m |-> m, err |-> NoErr]

\* logBatchCommit that checks the commit's error before it counts the items.
logBatchCommitErrFirst(m, which, b, n, num, errs, lat, fault, elapsed) ==
    IF n > 0
    THEN LET r == BackendCommit(m.backend, b, fault)
             took == elapsed \div n
             m1 == [m EXCEPT !.backend = r.store,
                             !.invoked = Append(@, Invocation("Commit", which, Nil, "",
                                                           Ret(r.err, Nil, FALSE, {})))]
         IN IF r.err # NoErr
            THEN [m |-> [m1 EXCEPT !.counters = Inc(@, errs, 1)], err |-> r.err]
            ELSE [m |-> [m1 EXCEPT !.counters = Inc(@, num, n),
                                   !.histograms = UpdateN(@, lat, took, n)],
                  err |-> NoErr]
    ELSE [m |-> m, err |-> NoErr]

\* func logBatchCommit(b, n, num, errs, lat) error; which names the session
\* ("delts" or "putts"), elapsed is the measured duration of b.Commit().
logBatchCommit(m, which, b, n, num, errs, lat, fault, elapsed) ==
    IF n > 0
    THEN LET r == BackendCommit(m.backend, b, fault)
             took == elapsed \div n
             m1 == [m EXCEPT !.backend = r.store,
                             !.invoked = Append(@, Invocation("Commit", which, Nil, "",
                                                           Ret(r.err, Nil, FALSE, {})))]
             m2 == [m1 EXCEPT !.counters = Inc(@, num, n)]
             m3 == [m2 EXCEPT !.histograms = UpdateN(@, lat, took, n)]
         IN IF r.err # NoErr
            THEN [m |-> [m3 EXCEPT !.counters = Inc(@, errs, 1)], err |-> r.err]
            ELSE [m |-> m3, err |-> NoErr]
    ELSE [m |-> m, err |-> NoErr]

\* Commit that commits the put session before the delete session.
CommitPutsFirst(m, mt, faultD, elapsedD, faultP, elapsedP) ==
    LET d == logBatchCommit(m, "putts", mt.putts, mt.puts,
                            putCount, putErr, putLatency, faultP, elapsedP)
    IN IF d.err # NoErr THEN d
       ELSE logBatchCommit(d.m, "delts", mt.delts, mt.deletes,
                           deleteCount, deleteErr, deleteLatency, faultD, elapsedD)

\* func (mt *measuredBatch) Commit() error
Commit(m, mt, faultD, elapsedD, faultP, elapsedP) ==
    LET d == logBatchCommit(m, "delts", mt.delts, mt.deletes,
                            deleteCount, deleteErr, deleteLatency, faultD, elapsedD)
    IN IF d.err # NoErr THEN d
       ELSE logBatchCommit(d.m, "putts", mt.putts, mt.puts,
                           putCount, putErr, putLatency, faultP, elapsedP)



\* ------------------------------------------------- metric-name lifecycle
Prefixes == {"ds", "measure"}

\* The 17 handles of a store, in the order New registers them.
MetricOrder ==
    <<putCount, putErr, putLatency, putSize,
      getCount, getErr, getLatency, getSize,
      hasCount, hasErr, hasLatency,
      deleteCount, deleteErr, deleteLatency,
      queryCount, queryErr, queryLatency>>

\* prefix + ".put.count", ...: distinct prefixes give distinct names
Name(prefix, suffix) == <<prefix, suffix>>

NamesOf(prefix) == {Name(prefix, MetricOrder[i]) : i \in DOMAIN MetricOrder}

\* func registerCounter(name string) namedCounter
registerCounter(reg, name) ==
    IF name \in reg
    THEN [registry |-> reg, panic |-> TRUE]
    ELSE [registry |-> reg \cup {name}, panic |-> FALSE]

\* func registerHistogram(name string) namedHistogram
registerHistogram(reg, name) ==
    IF name \in reg
    THEN [registry |-> reg, panic |-> TRUE]
    ELSE [registry |-> reg \cup {name}, panic |-> FALSE]

RECURSIVE RegisterFrom(_, _, _)
RegisterFrom(reg, prefix, i) ==
    IF i > Len(MetricOrder) THEN [registry |-> reg, panic |-> FALSE]
    ELSE LET r == IF MetricOrder[i] \in CounterNames
                  THEN registerCounter(reg, Name(prefix, MetricOrder[i]))
                  ELSE registerHistogram(reg, Name(prefix, MetricOrder[i]))
         IN IF r.panic THEN r ELSE RegisterFrom(r.registry, prefix, i + 1)

\* func New(prefix string, ds datastore.Datastore) *measure
New(reg, prefix) == RegisterFrom(reg, prefix, 1)

\* metrics.Unregister(name)
Unregister(reg, name) == reg \ {name}

RECURSIVE UnregisterFrom(_, _, _)
UnregisterFrom(reg, prefix, i) ==
    IF i > Len(MetricOrder) THEN reg
    ELSE UnregisterFrom(Unregister(reg, Name(prefix, MetricOrder[i])), prefix, i + 1)

\* Close that leaves one handle (put.size) registered.
CloseForgetsOne(reg, prefix, closer, fault) ==
    [registry |-> UnregisterFrom(reg, prefix, 1) \cup (reg \cap {Name(prefix, putSize)}),
     err |-> IF closer THEN fault ELSE NoErr]

\* func (m *measure) Close() error; closer says whether the backend is an
\* io.Closer, fault is what its Close returns.
Close(reg, prefix, closer, fault) ==
    [registry |-> UnregisterFrom(reg, prefix, 1),
     err |-> IF closer THEN fault ELSE NoErr]

\* A measure object: the prefix it was constructed with, whether its backend is
\* an io.Closer, and how many times Close was called on it.
Store(prefix, closer) == [prefix |-> prefix, closer |-> closer, closes |-> 0]

\* ------------------------------------------------------------------- state
VARIABLES
    backend,     \* the backend datastore's contents: key -> value (Nil: absent)
    batching,    \* whether the backend implements datastore.Batching
    counters,    \* value of each registered counter of the store
    histograms,  \* samples received by each registered histogram of the store
    batches,     \* the measuredBatch objects opened so far
    invoked,     \* backend invocations made by the last handler
    last,        \* the last call made on the wrapper, its inputs and its result
    tally,       \* history: per operation, the calls made, failed, and batched
    budget,      \* the calls the run may still make, by kind
    direct,      \* a backend that is issued the store's calls directly, unwrapped
    registry,    \* names registered in the metrics registry (lifecycle)
    stores,      \* the measure objects constructed so far (lifecycle)
    procs,       \* concurrent callers: position and locals of each
    done         \* concurrent callers: the calls that have returned

vars == <<backend, batching, counters, histograms, batches, invoked, last, tally,
          budget, direct, registry, stores, procs, done>>

storeVars == <<backend, batching, counters, histograms, batches, invoked, last, tally,
               budget, direct>>
lifeVars == <<registry, stores>>
concVars == <<procs, done>>

ZeroTally == [calls |-> 0, failed |-> 0, items |-> 0, commitsFailed |-> 0]

NoCall ==
    [op |-> "none", key |-> "", value |-> Nil, q |-> "", b |-> 0,
     ret |-> Ret(NoErr, Nil, FALSE, {}), elapsed |-> <<>>]

LastCall(op, key, value, q, b, ret, elapsed) ==
    [op |-> op, key |-> key, value |-> value, q |-> q, b |-> b, ret |-> ret,
     elapsed |-> elapsed]

Budget(calls, batchCalls) == [calls |-> calls, batchCalls |-> batchCalls]

\* The state after New("ds", backend): the backend holds what it held before it
\* was wrapped, every counter is zero and no histogram has a sample.
InitBackends == {[k \in Keys |-> Nil], [k \in Keys |-> IF k = "a" THEN Bytes(<<7>>) ELSE Nil]}

InitStore ==
    /\ backend \in InitBackends
    /\ direct = [store |-> backend, ret |-> Ret(NoErr, Nil, FALSE, {})]
    /\ batching \in BOOLEAN
    /\ counters = [n \in CounterNames |-> 0]
    /\ histograms = [n \in HistogramNames |-> <<>>]
    /\ batches = <<>>
    /\ invoked = <<>>
    /\ last = NoCall
    /\ tally = [op \in Operations |-> ZeroTally]

M == Measure(backend, counters, histograms)

BackendFailed(inv) == \E i \in DOMAIN inv : inv[i].ret.err # NoErr

\* One call has returned: record it and publish the wrapper's new state; d is
\* the outcome of the same call issued on the unwrapped backend.
Returned(op, r, call, d) ==
    /\ backend' = r.m.backend
    /\ counters' = r.m.counters
    /\ histograms' = r.m.histograms
    /\ invoked' = r.m.invoked
    /\ last' = call
    /\ tally' = [tally EXCEPT ![op].calls = @ + 1,
                              ![op].failed = @ + (IF BackendFailed(r.m.invoked) THEN 1 ELSE 0)]
    /\ direct' = d
    /\ budget' = [budget EXCEPT !.calls = @ - 1]
    /\ UNCHANGED <<batching, batches, lifeVars, concVars>>

CallPut ==
    /\ budget.calls > 0
    /\ \E key \in Keys, value \in Values, fault \in Faults, elapsed \in Elapsed :
         LET r == Put(M, key, value, fault, elapsed)
             d == BackendPut(direct.store, key, value, fault)
         IN Returned("put", r, LastCall("Put", key, value, "", 0, r.ret, <<elapsed>>),
                     [store |-> d.store, ret |-> Ret(d.err, Nil, FALSE, {})])

CallGet ==
    /\ budget.calls > 0
    /\ \E key \in Keys, fault \in Faults, elapsed \in Elapsed :
         LET r == Get(M, key, fault, elapsed)
             d == BackendGet(direct.store, key, fault)
         IN Returned("get", r, LastCall("Get", key, Nil, "", 0, r.ret, <<elapsed>>),
                     [store |-> direct.store, ret |-> Ret(d.err, d.value, FALSE, {})])

CallHas ==
    /\ budget.calls > 0
    /\ \E key \in Keys, fault \in Faults, elapsed \in Elapsed :
         LET r == Has(M, key, fault, elapsed)
             d == BackendHas(direct.store, key, fault)
         IN Returned("has", r, LastCall("Has", key, Nil, "", 0, r.ret, <<elapsed>>),
                     [store |-> direct.store, ret |-> Ret(d.err, Nil, d.exists, {})])

CallDelete ==
    /\ budget.calls > 0
    /\ \E key \in Keys, fault \in Faults, elapsed \in Elapsed :
         LET r == Delete(M, key, fault, elapsed)
             d == BackendDelete(direct.store, key, fault)
         IN Returned("delete", r, LastCall("Delete", key, Nil, "", 0, r.ret, <<elapsed>>),
                     [store |-> d.store, ret |-> Ret(d.err, Nil, FALSE, {})])

CallQuery ==
    /\ budget.calls > 0
    /\ \E q \in Queries, fault \in Faults, elapsed \in Elapsed :
         LET r == Query(M, q, fault, elapsed)
             d == BackendQuery(direct.store, q, fault)
         IN Returned("query", r, LastCall("Query", "", Nil, q, 0, r.ret, <<elapsed>>),
                     [store |-> direct.store, ret |-> Ret(d.err, Nil, FALSE, d.res)])

CallBatch ==
    /\ budget.batchCalls > 0
    /\ \E fault1 \in Faults :
       \E fault2 \in (IF batching /\ fault1 = NoErr THEN Faults ELSE {NoErr}) :
         LET r == Batch(batching, fault1, fault2)
         IN /\ batches' = IF r.ok THEN Append(batches, NewBatch) ELSE batches
            /\ last' = LastCall("Batch", "", Nil, "", IF r.ok THEN Len(batches) + 1 ELSE 0,
                                Ret(r.err, Nil, FALSE, {}), <<>>)
            /\ invoked' = <<>>
    /\ budget' = [budget EXCEPT !.batchCalls = @ - 1]
    /\ UNCHANGED <<backend, batching, counters, histograms, tally, direct, lifeVars, concVars>>

CallBatchPut ==
    \E b \in DOMAIN batches, key \in Keys, val \in Values, fault \in Faults :
      /\ budget.batchCalls > 0
      /\ budget' = [budget EXCEPT !.batchCalls = @ - 1]
      /\ LET r == BatchPut(M, batches[b], key, val, fault)
         IN /\ batches' = [batches EXCEPT ![b] = r.mt]
            /\ histograms' = r.m.histograms
            /\ counters' = r.m.counters
            /\ backend' = r.m.backend
            /\ invoked' = <<>>
            /\ last' = LastCall("BatchPut", key, val, "", b, Ret(r.err, Nil, FALSE, {}), <<>>)
      /\ UNCHANGED <<batching, tally, direct, lifeVars, concVars>>

CallBatchDelete ==
    \E b \in DOMAIN batches, key \in Keys, fault \in Faults :
      /\ budget.batchCalls > 0
      /\ budget' = [budget EXCEPT !.batchCalls = @ - 1]
      /\ LET r == BatchDelete(M, batches[b], key, fault)
         IN /\ batches' = [batches EXCEPT ![b] = r.mt]
            /\ histograms' = r.m.histograms
            /\ counters' = r.m.counters
            /\ backend' = r.m.backend
            /\ invoked' = <<>>
            /\ last' = LastCall("BatchDelete", key, Nil, "", b, Ret(r.err, Nil, FALSE, {}), <<>>)
      /\ UNCHANGED <<batching, tally, direct, lifeVars, concVars>>

\* The sub-batches whose backend commit the last Commit ran.
Ran(inv, which) == \E i \in DOMAIN inv : inv[i].op = "Commit" /\ inv[i].key = which
Failed(inv, which) ==
    \E i \in DOMAIN inv : inv[i].op = "Commit" /\ inv[i].key = which /\ inv[i].ret.err # NoErr

CallCommit ==
    \E b \in DOMAIN batches :
      /\ budget.batchCalls > 0
      /\ budget' = [budget EXCEPT !.batchCalls = @ - 1]
      /\ \E faultD \in (IF batches[b].deletes > 0 THEN Faults ELSE {NoErr}),
            elapsedD \in (IF batches[b].deletes > 0 THEN Elapsed ELSE {0}) :
         \E faultP \in (IF batches[b].puts > 0 /\ faultD = NoErr THEN Faults ELSE {NoErr}),
            elapsedP \in (IF batches[b].puts > 0 /\ faultD = NoErr THEN Elapsed ELSE {0}) :
           LET r == Commit(M, batches[b], faultD, elapsedD, faultP, elapsedP)
               inv == r.m.invoked
           IN /\ backend' = r.m.backend
              /\ counters' = r.m.counters
              /\ histograms' = r.m.histograms
              /\ invoked' = inv
              /\ batches' = [batches EXCEPT ![b].commits = @ + 1]
              /\ last' = LastCall("Commit", "", Nil, "", b, Ret(r.err, Nil, FALSE, {}),
                                  <<elapsedD, elapsedP>>)
              /\ tally' = [tally EXCEPT
                    !["delete"].items = @ + (IF Ran(inv, "delts") THEN batches[b].deletes ELSE 0),
                    !["delete"].commitsFailed = @ + (IF Failed(inv, "delts") THEN 1 ELSE 0),
                    !["put"].items = @ + (IF Ran(inv, "putts") THEN batches[b].puts ELSE 0),
                    !["put"].commitsFailed = @ + (IF Failed(inv, "putts") THEN 1 ELSE 0)]
      /\ UNCHANGED <<batching, direct, lifeVars, concVars>>

\* Outside the lifecycle runs the one store is New("ds", backend), never closed,
\* and no goroutine is inside a handler.
Idle ==
    /\ registry = NamesOf("ds")
    /\ stores = <<Store("ds", FALSE)>>
    /\ procs = <<>>
    /\ done = [returned |-> 0, overlapped |-> FALSE]

\* ---- the store's five operations, called one after the other
InitCalls == InitStore /\ Idle /\ budget = Budget(MaxCalls, 0)

NextCalls ==
    \/ CallPut
    \/ CallGet
    \/ CallHas
    \/ CallDelete
    \/ CallQuery

SpecCalls == InitCalls /\ [][NextCalls]_vars

\* ---- batches: Batch(), Put and Delete on a batch, Commit
InitBatch == InitStore /\ Idle /\ budget = Budget(0, MaxBatchCalls)

NextBatch ==
    \/ CallBatch
    \/ CallBatchPut
    \/ CallBatchDelete
    \/ CallCommit

SpecBatch == InitBatch /\ [][NextBatch]_vars

\* ---- both code paths, in any order
Init == InitStore /\ Idle /\ budget = Budget(MixCalls, MaxBatchCalls)

Next ==
    \/ CallPut
    \/ CallGet
    \/ CallHas
    \/ CallDelete
    \/ CallQuery
    \/ CallBatch
    \/ CallBatchPut
    \/ CallBatchDelete
    \/ CallCommit

Spec == Init /\ [][Next]_vars


\* ------------------------------------------------------------------ claims
Primary == {"Put", "Get", "Has", "Delete", "Query"}

\* The operation (metric family) a call of the store belongs to.
OpOf(call) ==
    CASE call = "Put" -> "put" [] call = "Get" -> "get" [] call = "Has" -> "has"
      [] call = "Delete" -> "delete" [] call = "Query" -> "query"

Last(seq) == seq[Len(seq)]

\* C1: every call of Put, Get, Has, Delete or Query invokes the backend's
\* operation of the same name exactly once with the identical arguments and
\* returns the backend's value and error unchanged; so after any sequence of
\* these calls the backend contents and the results equal those of issuing the
\* same sequence directly on the backend.
C1_TransparentDelegation ==
    last.op \in Primary =>
        /\ Len(invoked) = 1
        /\ invoked[1].op = last.op
        /\ invoked[1].key = last.key
        /\ invoked[1].value = last.value
        /\ invoked[1].q = last.q
        /\ last.ret = invoked[1].ret
        /\ last.ret = direct.ret
        /\ backend = direct.store

\* A Get returns the payload an earlier Put stored.
C1_Witness ==
    /\ last.op = "Get"
    /\ last.ret.err = NoErr
    /\ last.ret.value = Bytes(<<7, 8>>)
    /\ tally["put"].calls = 1

\* C3: every non-batched call adds exactly 1 to its operation's count, one
\* sample (the elapsed time, >= 0) to its latency histogram, and 1 to its
\* error-count exactly when the backend returned an error: after N calls of an
\* operation of which F failed, count = N, error-count = F and the latency
\* histogram holds N samples.
C3_CountErrLatencyPerCall ==
    /\ \A op \in Operations :
         /\ counters[CountOf(op)] = tally[op].calls
         /\ counters[ErrOf(op)] = tally[op].failed
         /\ Len(histograms[LatencyOf(op)]) = tally[op].calls
         /\ \A i \in DOMAIN histograms[LatencyOf(op)] : histograms[LatencyOf(op)][i] >= 0
    /\ last.op \in Primary =>
         /\ Last(histograms[LatencyOf(OpOf(last.op))]) = last.elapsed[1]
         /\ (last.ret.err # NoErr) = (invoked[1].ret.err # NoErr)

\* Two Deletes, both failed by the backend.
C3_Witness ==
    /\ last.op = "Delete"
    /\ last.ret.err # NoErr
    /\ tally["delete"].calls = 2
    /\ tally["delete"].failed = 2
    /\ counters[deleteErr] = 2

\* C4: a successful Put of a byte payload adds exactly one put-size sample, the
\* payload's length, and 1 to put-count; a Put of a value that is not a byte
\* payload adds no put-size sample and is still counted; a Get adds one
\* get-size sample, the returned payload's length, exactly when the backend
\* returned no error and the value is a byte payload.
C4_SizeSampling ==
    [][ /\ (last'.op = "Put" /\ IsBytes(last'.value) /\ last'.ret.err = NoErr) =>
             /\ histograms'[putSize] = Append(histograms[putSize], Len(last'.value.data))
             /\ counters'[putCount] = counters[putCount] + 1
        /\ (last'.op = "Put" /\ ~IsBytes(last'.value)) =>
             /\ histograms'[putSize] = histograms[putSize]
             /\ counters'[putCount] = counters[putCount] + 1
        /\ (last'.op = "Get" /\ last'.ret.err = NoErr /\ IsBytes(last'.ret.value)) =>
             histograms'[getSize] = Append(histograms[getSize], Len(last'.ret.value.data))
        /\ (last'.op = "Get" /\ ~(last'.ret.err = NoErr /\ IsBytes(last'.ret.value))) =>
             histograms'[getSize] = histograms[getSize]
      ]_vars

\* A Put of a two-byte payload, then a Get of it: one sample of 2 in each size
\* histogram.
C4_Witness ==
    /\ last.op = "Get"
    /\ last.ret.err = NoErr
    /\ histograms[putSize] = <<2>>
    /\ histograms[getSize] = <<2>>

\* The metrics an operation owns.
Owned(op) ==
    {CountOf(op), ErrOf(op), LatencyOf(op)}
      \cup (IF op = "put" THEN {putSize} ELSE IF op = "get" THEN {getSize} ELSE {})

\* C9: a call of operation X changes only X's metrics: every other
\* operation's count, error-count, latency and size are unchanged, X's
\* error-count is unchanged when the backend succeeds, and X's size histogram
\* is unchanged when no byte payload is involved.
C9_OwnMetricsOnly ==
    [][ last'.op \in Primary =>
          LET x == OpOf(last'.op)
          IN /\ \A n \in CounterNames \ Owned(x) : counters'[n] = counters[n]
             /\ \A n \in HistogramNames \ Owned(x) : histograms'[n] = histograms[n]
             /\ last'.ret.err = NoErr => counters'[ErrOf(x)] = counters[ErrOf(x)]
             /\ (last'.op = "Put" /\ ~IsBytes(last'.value)) =>
                    histograms'[putSize] = histograms[putSize]
             /\ (last'.op = "Get" /\ ~IsBytes(last'.ret.value)) =>
                    histograms'[getSize] = histograms[getSize]
      ]_vars

\* After two successful Has calls only has.count and has.latency were touched.
C9_Witness ==
    /\ last.op = "Has"
    /\ tally["has"] = [calls |-> 2, failed |-> 0, items |-> 0, commitsFailed |-> 0]
    /\ counters = [n \in CounterNames |-> IF n = hasCount THEN 2 ELSE 0]
    /\ \A n \in HistogramNames \ {hasLatency} : histograms[n] = <<>>


\* ------------------------------------------------------------ batch claims
CommitStep(l) == l.op = "Commit"

\* C2: batched writes are functionally identical to the backend's own batch:
\* after Put and Delete calls on one batch and one successful Commit, the
\* backend contents equal those of the same calls, in the same order, on a
\* single backend batch session that is then committed; also when one key is
\* both put and deleted in the batch, in either order.
C2_BatchEqualsBackendBatch ==
    [][ (CommitStep(last') /\ last'.ret.err = NoErr /\ batches[last'.b].commits = 0) =>
            backend' = ApplyOps(backend, batches[last'.b].log)
      ]_vars

Repeat(v, n) == [i \in 1..n |-> v]

\* C5: a Commit that succeeds on a batch with P puts and D deletes adds P to
\* put-count and P samples to put-latency, each floor(elapsed of the put
\* session's commit / P), and the same for deletes with D; when P = 0 (D = 0)
\* that session's backend commit is not invoked and that operation's count,
\* error-count and latency are unchanged.
C5_CommitAmortizesLatency ==
    [][ CommitStep(last') =>
          LET mt == batches[last'.b]
              P == mt.puts
              D == mt.deletes
          IN /\ (last'.ret.err = NoErr /\ P > 0) =>
                   /\ Ran(invoked', "putts")
                   /\ counters'[putCount] = counters[putCount] + P
                   /\ histograms'[putLatency] =
                        histograms[putLatency] \o Repeat(last'.elapsed[2] \div P, P)
             /\ (last'.ret.err = NoErr /\ D > 0) =>
                   /\ Ran(invoked', "delts")
                   /\ counters'[deleteCount] = counters[deleteCount] + D
                   /\ histograms'[deleteLatency] =
                        histograms[deleteLatency] \o Repeat(last'.elapsed[1] \div D, D)
             /\ P = 0 =>
                   /\ ~Ran(invoked', "putts")
                   /\ counters'[putCount] = counters[putCount]
                   /\ counters'[putErr] = counters[putErr]
                   /\ histograms'[putLatency] = histograms[putLatency]
             /\ D = 0 =>
                   /\ ~Ran(invoked', "delts")
                   /\ counters'[deleteCount] = counters[deleteCount]
                   /\ counters'[deleteErr] = counters[deleteErr]
                   /\ histograms'[deleteLatency] = histograms[deleteLatency]
      ]_vars

\* A successful Commit of 2 puts and no delete, the put session's commit
\* taking MaxElapsed: two equal samples of half of it, rounded down, and the
\* delete session not committed.
C5_Witness ==
    /\ CommitStep(last)
    /\ last.ret.err = NoErr
    /\ batches[last.b].puts = 2
    /\ batches[last.b].deletes = 0
    /\ last.elapsed[2] = MaxElapsed
    /\ counters[putCount] = 2
    /\ histograms[putLatency] = <<MaxElapsed \div 2, MaxElapsed \div 2>>
    /\ MaxElapsed \div 2 < MaxElapsed
    /\ ~Ran(invoked, "delts")
    /\ histograms[deleteLatency] = <<>>

\* C6: Commit processes the delete session before the put session; a failing
\* backend commit of a non-empty session adds exactly 1 to that operation's
\* error-count and its error is what Commit returns; when the delete session
\* fails, the put session's commit is never invoked and put count, error-count
\* and latency are unchanged.
C6_CommitOrderAndErrors ==
    [][ CommitStep(last') =>
          LET mt == batches[last'.b]
              inv == invoked'
          IN /\ Len(inv) <= 2
             /\ mt.deletes > 0 => (inv # <<>> /\ inv[1].key = "delts")
             /\ (mt.puts > 0 /\ ~Failed(inv, "delts")) => (inv # <<>> /\ Last(inv).key = "putts")
             /\ Ran(inv, "putts") => mt.puts > 0
             /\ Failed(inv, "delts") =>
                   /\ counters'[deleteErr] = counters[deleteErr] + 1
                   /\ last'.ret.err = inv[1].ret.err
                   /\ ~Ran(inv, "putts")
                   /\ counters'[putCount] = counters[putCount]
                   /\ counters'[putErr] = counters[putErr]
                   /\ histograms'[putLatency] = histograms[putLatency]
             /\ Failed(inv, "putts") =>
                   /\ counters'[putErr] = counters[putErr] + 1
                   /\ last'.ret.err = Last(inv).ret.err
             /\ ~BackendFailed(inv) =>
                   /\ last'.ret.err = NoErr
                   /\ counters'[putErr] = counters[putErr]
                   /\ counters'[deleteErr] = counters[deleteErr]
      ]_vars

\* A Commit whose delete session fails while a put is buffered.
C6_Witness ==
    /\ CommitStep(last)
    /\ Failed(invoked, "delts")
    /\ batches[last.b].deletes = 1
    /\ batches[last.b].puts = 1
    /\ batches[last.b].putts # <<>>
    /\ counters[deleteErr] = 1
    /\ counters[putCount] = 0

\* C10: in every state reached by non-batched calls, batch Put/Delete calls
\* and Commits (successful or failing), each operation's error-count is at
\* most its count and its latency histogram holds as many samples as its count.
C10_ErrAtMostCountLatencyMatchesCount ==
    \A op \in Operations :
        /\ counters[ErrOf(op)] <= counters[CountOf(op)]
        /\ Len(histograms[LatencyOf(op)]) = counters[CountOf(op)]

\* One failed Put call and a Commit of 2 puts that failed too.
C10_Witness ==
    /\ tally["put"] = [calls |-> 1, failed |-> 1, items |-> 2, commitsFailed |-> 1]
    /\ counters[putErr] = 2
    /\ counters[putCount] = 3


\* ----------------------------------------- metric-name lifecycle: the run
Closes == IF stores = <<>> THEN 0
          ELSE LET sum[i \in 0..Len(stores)] == IF i = 0 THEN 0 ELSE sum[i - 1] + stores[i].closes
               IN sum[Len(stores)]

\* New(prefix, ds); a panic unwinds to the caller, which may recover from it.
CallNew ==
    /\ Len(stores) < MaxStores
    /\ \E prefix \in Prefixes, closer \in BOOLEAN :
         LET r == New(registry, prefix)
         IN /\ registry' = r.registry
            /\ stores' = IF r.panic THEN stores ELSE Append(stores, Store(prefix, closer))
            /\ last' = LastCall("New", prefix, Nil, "", IF r.panic THEN 0 ELSE Len(stores) + 1,
                                Ret(IF r.panic THEN PanicDuplicate ELSE NoErr, Nil, FALSE, {}),
                                <<>>)
    /\ UNCHANGED <<backend, batching, counters, histograms, batches, invoked, tally,
                   budget, direct, concVars>>

\* m.Close() on any measure object the program holds, closed before or not.
CallClose ==
    /\ Closes < MaxCloses
    /\ \E i \in DOMAIN stores, fault \in Faults :
         LET r == Close(registry, stores[i].prefix, stores[i].closer, fault)
         IN /\ registry' = r.registry
            /\ stores' = [stores EXCEPT ![i].closes = @ + 1]
            /\ last' = LastCall("Close", stores[i].prefix, Nil, "", i,
                                Ret(r.err, Nil, FALSE, {}), <<>>)
    /\ UNCHANGED <<backend, batching, counters, histograms, batches, invoked, tally,
                   budget, direct, concVars>>

InitLife ==
    /\ InitStore
    /\ budget = Budget(0, 0)
    /\ registry = {}
    /\ stores = <<>>
    /\ procs = <<>>
    /\ done = [returned |-> 0, overlapped |-> FALSE]

NextLife ==
    \/ CallNew
    \/ CallClose

SpecLife == InitLife /\ [][NextLife]_vars

\* A store that was constructed and has not been torn down.
Live(st) == st.closes = 0

LiveWith(sts, prefix) == \E i \in DOMAIN sts : Live(sts[i]) /\ sts[i].prefix = prefix

\* The three parts of the metric-name lifecycle, over one step.
Lifecycle ==
    /\ (last'.op = "New" /\ LiveWith(stores, last'.key)) => last'.ret.err = PanicDuplicate
    /\ (last'.op = "New" /\ ~LiveWith(stores, last'.key)) =>
          /\ last'.ret.err = NoErr
          /\ NamesOf(last'.key) \subseteq registry'
    /\ \A i \in DOMAIN stores' : Live(stores'[i]) => NamesOf(stores'[i].prefix) \subseteq registry'
    /\ last'.op = "Close" => NamesOf(last'.key) \cap registry' = {}

\* C7 as stated: for any sequence of New and Close calls, New with a prefix of
\* a store not yet torn down fails with a collision, a store's 17 names stay
\* registered from its construction until its Close, and after Close none of
\* them remains, so the prefix can be used again.
C7_LifecycleAnySequence == [][Lifecycle]_vars

AtMostOnceClosed(sts) == \A i \in DOMAIN sts : sts[i].closes <= 1

\* C7: the same, for any sequence of New and Close calls in which no store is
\* closed more than once.
C7_LifecycleCloseOnce == [][AtMostOnceClosed(stores') => Lifecycle]_vars

\* A prefix released by Close and used again, then a New that collides with
\* the second store.
C7_Witness ==
    /\ last.op = "New"
    /\ last.ret.err = PanicDuplicate
    /\ Len(stores) = 2
    /\ stores[1].prefix = last.key /\ stores[1].closes = 1
    /\ stores[2].prefix = last.key /\ stores[2].closes = 0
    /\ NamesOf(last.key) \subseteq registry


\* ------------------------------------------------------ concurrent callers
\* Goroutines that call the one store concurrently.  A handler is a sequence
\* of steps; each counter or histogram update and each backend operation is
\* one atomic step, and steps of different callers interleave freely.
Procs == {"g1", "g2"}

IdleProc ==
    [pc |-> "idle", op |-> "none", key |-> "", value |-> Nil, q |-> "",
     ret |-> Ret(NoErr, Nil, FALSE, {})]

\* The handler's local err (and value): what this call's backend operation returned.
SharedErr(p) == IF invoked = <<>> THEN NoErr ELSE invoked[1].ret.err

LocalErr(p) == procs[p].ret.err

\* Entry into a handler: the deferred recordLatency captures time.Now().
Begin(p) ==
    /\ procs[p].pc = "idle"
    /\ budget.calls > 0
    /\ \E op \in Primary, key \in Keys, value \in Values, q \in Queries :
         /\ (op = "Query") = (key = "")
         /\ (op = "Query") \/ q = ""
         /\ (op = "Put") \/ value = Struct
         /\ procs' = [procs EXCEPT ![p] =
                [pc |-> "count", op |-> op, key |-> key,
                 value |-> IF op = "Put" THEN value ELSE Nil, q |-> q,
                 ret |-> Ret(NoErr, Nil, FALSE, {})]]
    /\ budget' = [budget EXCEPT !.calls = @ - 1]
    /\ done' = [done EXCEPT !.overlapped =
                    @ \/ \E o \in Procs \ {p} : procs[o].pc # "idle"]
    /\ UNCHANGED <<backend, batching, counters, histograms, batches, invoked, last,
                   tally, direct, lifeVars>>

\* m.putCount.Inc(1), m.getCount.Inc(1), ...
StepCount(p) ==
    /\ procs[p].pc = "count"
    /\ counters' = Inc(counters, CountOf(OpOf(procs[p].op)), 1)
    /\ procs' = [procs EXCEPT ![p].pc =
                    IF procs[p].op = "Put" /\ IsBytes(procs[p].value)
                    THEN "size" ELSE "backend"]
    /\ UNCHANGED <<backend, batching, histograms, batches, invoked, last, tally,
                   budget, direct, lifeVars, done>>

\* Put: m.putSize.Update(int64(len(b)))
StepSize(p) ==
    /\ procs[p].pc = "size"
    /\ histograms' = Update(histograms, putSize, Len(procs[p].value.data))
    /\ procs' = [procs EXCEPT ![p].pc = "backend"]
    /\ UNCHANGED <<backend, batching, counters, batches, invoked, last, tally,
                   budget, direct, lifeVars, done>>

\* The backend operation of the call, and what it returns.
BackendCall(store, c, fault) ==
    CASE c.op = "Put" ->
           LET r == BackendPut(store, c.key, c.value, fault)
           IN [store |-> r.store, ret |-> Ret(r.err, Nil, FALSE, {})]
      [] c.op = "Get" ->
           LET r == BackendGet(store, c.key, fault)
           IN [store |-> store, ret |-> Ret(r.err, r.value, FALSE, {})]
      [] c.op = "Has" ->
           LET r == BackendHas(store, c.key, fault)
           IN [store |-> store, ret |-> Ret(r.err, Nil, r.exists, {})]
      [] c.op = "Delete" ->
           LET r == BackendDelete(store, c.key, fault)
           IN [store |-> r.store, ret |-> Ret(r.err, Nil, FALSE, {})]
      [] c.op = "Query" ->
           LET r == BackendQuery(store, c.q, fault)
           IN [store |-> store, ret |-> Ret(r.err, Nil, FALSE, r.res)]

\* err := m.backend.Put(key, value), value, err = m.backend.Get(key), ...
StepBackend(p) ==
    /\ procs[p].pc = "backend"
    /\ \E fault \in Faults :
         LET c == procs[p]
             r == BackendCall(backend, c, fault)
         IN /\ backend' = r.store
            /\ invoked' = <<Invocation(c.op, c.key, c.value, c.q, r.ret)>>
            /\ procs' = [procs EXCEPT ![p].ret = r.ret, ![p].pc = "outcome"]
    /\ UNCHANGED <<batching, counters, histograms, batches, last, tally,
                   budget, direct, lifeVars, done>>

\* if err != nil { m.putErr.Inc(1) }; Get: else if []byte, m.getSize.Update
StepOutcome(p) ==
    /\ procs[p].pc = "outcome"
    /\ IF LocalErr(p) # NoErr
       THEN /\ counters' = Inc(counters, ErrOf(OpOf(procs[p].op)), 1)
            /\ UNCHANGED histograms
       ELSE IF procs[p].op = "Get" /\ IsBytes(procs[p].ret.value)
       THEN /\ histograms' = Update(histograms, getSize, Len(procs[p].ret.value.data))
            /\ UNCHANGED counters
       ELSE UNCHANGED <<counters, histograms>>
    /\ procs' = [procs EXCEPT ![p].pc = "latency"]
    /\ UNCHANGED <<backend, batching, batches, invoked, last, tally,
                   budget, direct, lifeVars, done>>

\* The deferred recordLatency runs and the call returns.
StepLatency(p) ==
    /\ procs[p].pc = "latency"
    /\ \E elapsed \in Elapsed :
         histograms' = Update(histograms, LatencyOf(OpOf(procs[p].op)), elapsed)
    /\ tally' = [tally EXCEPT
                    ![OpOf(procs[p].op)].calls = @ + 1,
                    ![OpOf(procs[p].op)].failed =
                        @ + (IF procs[p].ret.err # NoErr THEN 1 ELSE 0)]
    /\ done' = [done EXCEPT !.returned = @ + 1]
    /\ procs' = [procs EXCEPT ![p] = IdleProc]
    /\ UNCHANGED <<backend, batching, counters, batches, invoked, last,
                   budget, direct, lifeVars>>

InitConc ==
    /\ InitStore
    /\ budget = Budget(ConcCalls, 0)
    /\ registry = NamesOf("ds")
    /\ stores = <<Store("ds", FALSE)>>
    /\ procs = [p \in Procs |-> IdleProc]
    /\ done = [returned |-> 0, overlapped |-> FALSE]

NextConc ==
    \E p \in Procs :
        \/ Begin(p)
        \/ StepCount(p)
        \/ StepSize(p)
        \/ StepBackend(p)
        \/ StepOutcome(p)
        \/ StepLatency(p)

SpecConc == InitConc /\ [][NextConc]_vars

Quiescent == \A p \in Procs : procs[p].pc = "idle"

====
